---- MODULE Spec2Model ----
(***************************************************************************)
(* Model of src/src/wallets.js (BitGoJS): the two multi-step operations of *)
(* the Wallets object, acceptShare and createWalletWithKeychains, each a   *)
(* promise chain whose suspension points are the calls to the BitGo        *)
(* service.  Several invocations run in one process and interleave at      *)
(* those suspension points.                                                *)
(***************************************************************************)
EXTENDS Integers, Sequences, FiniteSets, TLC

\* Number of invocations (of either operation) the process makes.
NumInv == 2

Inv == 1..NumInv

----------------------------------------------------------------------------
\* JavaScript values.  Every value is a record tagged by t.

UNDEF == [t |-> "undefined"]
Str(s) == [t |-> "str", v |-> s]
FAIL == [t |-> "exception"]

\* JavaScript truthiness of a parameter: undefined and '' are falsy.
Truthy(x) == x.t # "undefined" /\ ~(x.t = "str" /\ x.v = "")

\* a || b
OrElse(a, b) == IF Truthy(a) THEN a ELSE b

\* Key material.  k stands for the private scalar; the public key of k is
\* the point k.G, written Xpub(k) / Pub(k).  k = 0 is not a valid key.
Xprv(k) == [t |-> "xprv", k |-> k]
Xpub(k) == [t |-> "xpub", k |-> k]
Pub(k) == [t |-> "pub", k |-> k]

\* bitgo.encrypt({password, input}): the blob opens only under password.
Encrypt(password, input) == [t |-> "enc", pw |-> password, pt |-> input]

\* bitgo.decrypt({password, input}): throws on a wrong password or on an
\* input that is not a blob.
Decrypt(password, input) ==
  IF input.t = "enc" /\ input.pw = password THEN input.pt ELSE FAIL

\* Derivation paths: the index of the child, 0 for an ill-formed path.
PathIndex(path) ==
  IF path = Str("m/1") THEN 1 ELSE IF path = Str("m/2") THEN 2 ELSE 0

\* new BIP32(xprv).derive(path): throws when xprv is not a serialized
\* extended private key or when the path is ill-formed; deterministic.
Derive(xprv, path) ==
  IF xprv.t # "xprv" \/ xprv.k = 0 \/ PathIndex(path) = 0 THEN FAIL
  ELSE [t |-> "eckey", k |-> 10 * xprv.k + PathIndex(path)]

\* bitgo.getECDHSecret({eckey, otherPubKeyHex}): the x coordinate of
\* eckey.priv * otherPub, i.e. of (a * b).G; throws when the other key is
\* not a point of the curve.
ECDHSecret(eckey, otherPubKey) ==
  IF eckey.t # "eckey" \/ otherPubKey.t # "pub" \/ otherPubKey.k = 0 THEN FAIL
  ELSE [t |-> "secret", v |-> eckey.k * otherPubKey.k]

\* bitgo.keychains().create(): a fresh extended key pair; k is its scalar.
KeychainCreate(k) == [xpub |-> Xpub(k), xprv |-> Xprv(k)]

----------------------------------------------------------------------------
\* The service's data.

\* The recipient's ECDH sharing keychain, stored encrypted under the
\* account password.
SharingXprv == Xprv(3)
AccountPassword == Str("pw1")

\* What GET of the sharing keychain may return: the keychain, or a
\* keychain without encryptedXprv.
SharingKeychains ==
  { [encryptedXprv |-> Encrypt(AccountPassword, SharingXprv)],
    [encryptedXprv |-> UNDEF] }

\* The sender's key at the agreed path, and the shared wallet's key.
SenderEcKey == [t |-> "eckey", k |-> 5]
SharedWalletXprv == Xprv(7)

\* The secret the sender used for path p: ECDH(senderPriv, recipientPub@p).
SenderSecret(p) == ECDHSecret(SenderEcKey, Pub(Derive(SharingXprv, p).k))

GoodKeychain ==
  [path |-> Str("m/1"), fromPubKey |-> Pub(SenderEcKey.k),
   encryptedXprv |-> Encrypt(SenderSecret(Str("m/1")), SharedWalletXprv)]

\* A view-only share carries no key material.
NoKeychain == [path |-> UNDEF, fromPubKey |-> UNDEF, encryptedXprv |-> UNDEF]

\* permissions is a comma-joined string, held as its sequence of tokens:
\* a token is either a comma or a maximal run of other characters.
Shares ==
  [ s1 |-> [permissions |-> <<"view">>, keychain |-> NoKeychain],
    s2 |-> [permissions |-> <<"spend", ",", "view">>, keychain |-> GoodKeychain],
    s3 |-> [permissions |-> <<"admin", ",", "spend", ",", "view">>,
            keychain |-> [GoodKeychain EXCEPT !.path = Str("bad")]],
    s4 |-> [permissions |-> <<"spend">>,
            keychain |-> [GoodKeychain EXCEPT !.fromPubKey = Pub(0)]],
    s5 |-> [permissions |-> <<"view", ",", "spend">>,
            keychain |-> [GoodKeychain EXCEPT
                            !.encryptedXprv = Encrypt(SenderSecret(Str("m/2")), SharedWalletXprv)]],
    s6 |-> [permissions |-> <<"view", ",", "view">>, keychain |-> GoodKeychain] ]

ShareIds == DOMAIN Shares

----------------------------------------------------------------------------
\* String.prototype.split(","), on the token sequence: the segments
\* between commas, each a sequence of tokens ('' is the empty segment).
RECURSIVE Split(_)
Split(s) ==
  IF s = <<>> THEN << <<>> >>
  ELSE LET rest == Split(Tail(s))
       IN  IF Head(s) = "," THEN << <<>> >> \o rest
           ELSE << <<Head(s)>> \o Head(rest) >> \o Tail(rest)

\* Array.prototype.indexOf(x) >= 0
Contains(arr, x) == \E n \in 1..Len(arr) : arr[n] = x

----------------------------------------------------------------------------
VARIABLES
  op,                        \* per invocation: which operation it runs
  pc,                        \* per invocation: the call it is suspended on
  params,                    \* per invocation: the params argument
  walletShare,               \* acceptShare: the share the fetch resolved to
  sharingKeychain,           \* acceptShare: the sharing keychain fetched
  encryptedSharedWalletXprv, \* acceptShare: the closure variable of line 89
  userKeychain,              \* createWalletWithKeychains: locals
  backupKeychain,
  bitgoKeychain,
  sent,                      \* per invocation: the requests it has sent
  result,                    \* per invocation: what nodeify delivers
  shareState,                \* service: the state of each wallet share
  keychainStore,             \* service: the registered keychains
  walletStore                \* service: the created wallets

acceptVars == <<walletShare, sharingKeychain, encryptedSharedWalletXprv, shareState>>
createVars == <<userKeychain, backupKeychain, bitgoKeychain, keychainStore, walletStore>>
vars == <<op, pc, params, sent, result, acceptVars, createVars>>

\* A request to the service.  A GET carries no body.
Request(call, method, id, body) ==
  [call |-> call, method |-> method, id |-> id, body |-> body]

Err(msg) == [t |-> "error", msg |-> msg]
Ok(value) == [t |-> "ok", value |-> value]

Init ==
  /\ op = [i \in Inv |-> "none"]
  /\ pc = [i \in Inv |-> "idle"]
  /\ params = [i \in Inv |-> UNDEF]
  /\ walletShare = [i \in Inv |-> UNDEF]
  /\ sharingKeychain = [i \in Inv |-> UNDEF]
  /\ encryptedSharedWalletXprv = [i \in Inv |-> UNDEF]
  /\ userKeychain = [i \in Inv |-> UNDEF]
  /\ backupKeychain = [i \in Inv |-> UNDEF]
  /\ bitgoKeychain = [i \in Inv |-> UNDEF]
  /\ sent = [i \in Inv |-> <<>>]
  /\ result = [i \in Inv |-> UNDEF]
  /\ shareState = [s \in ShareIds |-> "pending"]
  /\ keychainStore = {}
  /\ walletStore = {}

\* Invocations are numbered in the order they are made.
MayStart(i) ==
  /\ op[i] = "none"
  /\ \A j \in Inv : j < i => op[j] # "none"

----------------------------------------------------------------------------
\* acceptShare

\* The params acceptShare is called with (walletShareId passes
\* validateParams: a non-empty string): shares of each kind of
\* permissions without a password, the key-transfer shares with the
\* account password, and the share s2 also with an empty password, a
\* wrong password, and an empty or a new wallet passphrase.
AcceptShareParams ==
  [walletShareId : {"s1", "s2", "s4", "s6"},
   userPassword : {UNDEF},
   newWalletPassphrase : {UNDEF}]
  \cup
  [walletShareId : {"s2", "s3", "s4", "s5"},
   userPassword : {Str("pw1")},
   newWalletPassphrase : {UNDEF}]
  \cup
  [walletShareId : {"s2"},
   userPassword : {Str(""), Str("pw2")},
   newWalletPassphrase : {UNDEF}]
  \cup
  [walletShareId : {"s2"},
   userPassword : {Str("pw1")},
   newWalletPassphrase : {Str(""), Str("np")}]

\* getShare: GET /walletshare/<id>
GetShareRequest(id) == Request("getShare", "GET", id, <<>>)

\* bitgo.getECDHSharingKeychain()
SharingKeychainRequest == Request("getECDHSharingKeychain", "GET", "", <<>>)

\* Variant of IsViewOnly without the length test.
IsViewOnlyAnyView(permissions) == Contains(Split(permissions), <<"view">>)

\* permissions.length === 1 && permissions.indexOf("view") >= 0
IsViewOnly(permissions) ==
  LET permissionList == Split(permissions)
  IN  Len(permissionList) = 1 /\ Contains(permissionList, <<"view">>)

\* Variant of PasswordMissing for a callback without the test of line 100.
PasswordMissingUntested(p) == FALSE

\* Variant of PasswordMissing that tests for undefined only.
PasswordMissingStrict(p) == p.userPassword = UNDEF

\* !params.userPassword
PasswordMissing(p) == ~Truthy(p.userPassword)

\* Variant of NewWalletPassphrase that falls back to userPassword only when
\* newWalletPassphrase is undefined.
NewWalletPassphraseIfDefined(p) ==
  IF p.newWalletPassphrase = UNDEF THEN p.userPassword
  ELSE p.newWalletPassphrase

\* var newWalletPassphrase = params.newWalletPassphrase || params.userPassword
NewWalletPassphrase(p) == OrElse(p.newWalletPassphrase, p.userPassword)

\* Variant of ProcessSharedKey in which a failed decryption of the shared
\* wallet xprv does not throw.
ProcessSharedKeyUnchecked(p, share, keychain, encryptThrows) ==
  LET xprv == Decrypt(p.userPassword, keychain.encryptedXprv)
      extKey == Derive(xprv, share.keychain.path)
      secret == ECDHSecret(extKey, share.keychain.fromPubKey)
      decryptedSharedWalletXprv == Decrypt(secret, share.keychain.encryptedXprv)
  IN  IF ~Truthy(keychain.encryptedXprv)
        THEN [err |-> "EncryptedXprv was not found on sharing keychain", enc |-> UNDEF]
      ELSE IF xprv = FAIL THEN [err |-> "decrypt sharing keychain", enc |-> UNDEF]
      ELSE IF extKey = FAIL THEN [err |-> "derive", enc |-> UNDEF]
      ELSE IF secret = FAIL THEN [err |-> "getECDHSecret", enc |-> UNDEF]
      ELSE IF encryptThrows THEN [err |-> "encrypt", enc |-> UNDEF]
      ELSE [err |-> "",
            enc |-> Encrypt(OrElse(p.newWalletPassphrase, p.userPassword),
                            decryptedSharedWalletXprv)]

\* Variant of ProcessSharedKey that catches every exception and goes on
\* without a blob.
ProcessSharedKeySwallowing(p, share, keychain, encryptThrows) ==
  LET xprv == Decrypt(p.userPassword, keychain.encryptedXprv)
      extKey == Derive(xprv, share.keychain.path)
      secret == ECDHSecret(extKey, share.keychain.fromPubKey)
      decryptedSharedWalletXprv == Decrypt(secret, share.keychain.encryptedXprv)
  IN  IF decryptedSharedWalletXprv = FAIL \/ encryptThrows
        THEN [err |-> "", enc |-> UNDEF]
      ELSE [err |-> "",
            enc |-> Encrypt(OrElse(p.newWalletPassphrase, p.userPassword),
                            decryptedSharedWalletXprv)]

\* Variant of ProcessSharedKey that takes the ECDH key from the root of
\* the sharing keychain, not from its child at the path of the share.
ProcessSharedKeyAtRoot(p, share, keychain, encryptThrows) ==
  LET xprv == Decrypt(p.userPassword, keychain.encryptedXprv)
      extKey == IF xprv = FAIL THEN FAIL ELSE [t |-> "eckey", k |-> xprv.k]
      secret == ECDHSecret(extKey, share.keychain.fromPubKey)
      decryptedSharedWalletXprv == Decrypt(secret, share.keychain.encryptedXprv)
  IN  IF ~Truthy(keychain.encryptedXprv)
        THEN [err |-> "EncryptedXprv was not found on sharing keychain", enc |-> UNDEF]
      ELSE IF xprv = FAIL THEN [err |-> "decrypt sharing keychain", enc |-> UNDEF]
      ELSE IF secret = FAIL THEN [err |-> "getECDHSecret", enc |-> UNDEF]
      ELSE IF decryptedSharedWalletXprv = FAIL
        THEN [err |-> "decrypt shared wallet xprv", enc |-> UNDEF]
      ELSE IF encryptThrows THEN [err |-> "encrypt", enc |-> UNDEF]
      ELSE [err |-> "",
            enc |-> Encrypt(NewWalletPassphrase(p), decryptedSharedWalletXprv)]

\* The callback of getECDHSharingKeychain: what it throws (err) or the
\* blob it leaves in encryptedSharedWalletXprv (enc).  encryptThrows: the
\* cipher fails on the re-encryption.
ProcessSharedKey(p, share, keychain, encryptThrows) ==
  LET xprv == Decrypt(p.userPassword, keychain.encryptedXprv)
      extKey == Derive(xprv, share.keychain.path)
      secret == ECDHSecret(extKey, share.keychain.fromPubKey)
      decryptedSharedWalletXprv == Decrypt(secret, share.keychain.encryptedXprv)
  IN  IF ~Truthy(keychain.encryptedXprv)
        THEN [err |-> "EncryptedXprv was not found on sharing keychain", enc |-> UNDEF]
      ELSE IF xprv = FAIL THEN [err |-> "decrypt sharing keychain", enc |-> UNDEF]
      ELSE IF extKey = FAIL THEN [err |-> "derive", enc |-> UNDEF]
      ELSE IF secret = FAIL THEN [err |-> "getECDHSecret", enc |-> UNDEF]
      ELSE IF decryptedSharedWalletXprv = FAIL
        THEN [err |-> "decrypt shared wallet xprv", enc |-> UNDEF]
      ELSE IF encryptThrows THEN [err |-> "encrypt", enc |-> UNDEF]
      ELSE [err |-> "",
            enc |-> Encrypt(NewWalletPassphrase(p), decryptedSharedWalletXprv)]

\* Variant of PostBody that always sets encryptedXprv.
PostBodyAlwaysKey(enc) == [state |-> Str("accepted"), encryptedXprv |-> enc]

\* var postBody = {state: 'accepted'}; if (encryptedSharedWalletXprv) ...
PostBody(enc) ==
  IF Truthy(enc) THEN [state |-> Str("accepted"), encryptedXprv |-> enc]
  ELSE [state |-> Str("accepted")]

\* POST /walletshare/<id>
FinalizeRequest(id, enc) == Request("acceptShare", "POST", id, PostBody(enc))

\* The call: validateParams, then getShare is issued.
AcceptShare(i) ==
  /\ MayStart(i)
  /\ \E p \in AcceptShareParams :
       /\ op' = [op EXCEPT ![i] = "acceptShare"]
       /\ params' = [params EXCEPT ![i] = p]
       /\ sent' = [sent EXCEPT ![i] = <<GetShareRequest(p.walletShareId)>>]
  /\ pc' = [pc EXCEPT ![i] = "getShare"]
  /\ UNCHANGED <<result, acceptVars, createVars>>

\* Variant of ClosureBlob for a variable shared by all invocations: it
\* holds the blob some invocation has left in it.
ClosureBlobShared(i) ==
  IF \E j \in Inv : encryptedSharedWalletXprv[j] # UNDEF
    THEN encryptedSharedWalletXprv[CHOOSE j \in Inv : encryptedSharedWalletXprv[j] # UNDEF]
  ELSE UNDEF

\* What the second callback reads from encryptedSharedWalletXprv: the
\* variable is declared inside acceptShare, one per invocation.
ClosureBlob(i) == encryptedSharedWalletXprv[i]

\* getShare resolves: the first callback runs, and for a view-only share
\* the second one right after it.
GetShareResolved(i) ==
  /\ op[i] = "acceptShare" /\ pc[i] = "getShare"
  /\ LET p == params[i]
         share == Shares[p.walletShareId]
     IN  /\ walletShare' = [walletShare EXCEPT ![i] = share]
         /\ IF IsViewOnly(share.permissions)
              THEN /\ sent' = [sent EXCEPT ![i] = Append(@,
                          FinalizeRequest(p.walletShareId, ClosureBlob(i)))]
                   /\ pc' = [pc EXCEPT ![i] = "post"]
                   /\ UNCHANGED result
            ELSE IF PasswordMissing(p)
              THEN /\ pc' = [pc EXCEPT ![i] = "error"]
                   /\ result' = [result EXCEPT ![i] =
                          Err("userPassword param must be provided to decrypt shared key")]
                   /\ UNCHANGED sent
            ELSE /\ sent' = [sent EXCEPT ![i] = Append(@, SharingKeychainRequest)]
                 /\ pc' = [pc EXCEPT ![i] = "getECDHSharingKeychain"]
                 /\ UNCHANGED result
  /\ UNCHANGED <<op, params, sharingKeychain, encryptedSharedWalletXprv,
                 shareState, createVars>>

\* getECDHSharingKeychain resolves: the key is recovered and re-encrypted,
\* then the second callback posts the acceptance.
SharingKeychainResolved(i) ==
  /\ op[i] = "acceptShare" /\ pc[i] = "getECDHSharingKeychain"
  /\ \E keychain \in SharingKeychains, encryptThrows \in BOOLEAN :
       LET p == params[i]
           r == ProcessSharedKey(p, walletShare[i], keychain, encryptThrows)
       IN  /\ sharingKeychain' = [sharingKeychain EXCEPT ![i] = keychain]
           /\ IF r.err # ""
             THEN /\ pc' = [pc EXCEPT ![i] = "error"]
                  /\ result' = [result EXCEPT ![i] = Err(r.err)]
                  /\ UNCHANGED <<sent, encryptedSharedWalletXprv>>
             ELSE /\ encryptedSharedWalletXprv' =
                       [encryptedSharedWalletXprv EXCEPT ![i] = r.enc]
                  /\ sent' = [sent EXCEPT ![i] = Append(@,
                         FinalizeRequest(p.walletShareId, r.enc))]
                  /\ pc' = [pc EXCEPT ![i] = "post"]
                  /\ UNCHANGED result
  /\ UNCHANGED <<op, params, walletShare, shareState, createVars>>

\* The service accepts the share; the response is the result.
PostResolved(i) ==
  /\ op[i] = "acceptShare" /\ pc[i] = "post"
  /\ shareState' = [shareState EXCEPT ![params[i].walletShareId] = "accepted"]
  /\ pc' = [pc EXCEPT ![i] = "done"]
  /\ result' = [result EXCEPT ![i] = Ok(sent[i][Len(sent[i])].body)]
  /\ UNCHANGED <<op, params, sent, walletShare, sharingKeychain,
                 encryptedSharedWalletXprv, createVars>>

\* A request of acceptShare fails: no callback of the chain handles a
\* rejection, so nodeify delivers it.
AcceptShareRejected(i) ==
  /\ op[i] = "acceptShare"
  /\ pc[i] \in {"getShare", "getECDHSharingKeychain", "post"}
  /\ pc' = [pc EXCEPT ![i] = "error"]
  /\ result' = [result EXCEPT ![i] = Err(pc[i])]
  /\ UNCHANGED <<op, params, sent, acceptVars, createVars>>

NextAccept ==
  \E i \in Inv :
    \/ AcceptShare(i)
    \/ GetShareResolved(i)
    \/ SharingKeychainResolved(i)
    \/ PostResolved(i)
    \/ AcceptShareRejected(i)

SpecAccept == Init /\ [][NextAccept]_vars

----------------------------------------------------------------------------
\* add

Num(n) == [t |-> "num", v |-> n]
Array(items) == [t |-> "array", items |-> items]

\* x != n for a number n: != converts a numeric string to its number.
LooseNotEqual(x, n) ==
  ~ \/ x.t = "num" /\ x.v = n
    \/ x.t = "str" /\ x.v = (IF n = 2 THEN "2" ELSE IF n = 3 THEN "3" ELSE "NaN")

\* Variant of AddError without the typeof tests on m and n.
AddErrorUntyped(p) ==
  IF p.keychains.t # "array" THEN "invalid argument"
  ELSE IF LooseNotEqual(p.m, 2) \/ LooseNotEqual(p.n, 3)
    THEN "unsupported multi-sig type"
  ELSE ""

\* The argument checks of add: the message of the Error it throws, or "".
AddError(p) ==
  IF p.keychains.t # "array" \/ p.m.t # "num" \/ p.n.t # "num"
    THEN "invalid argument"
  ELSE IF LooseNotEqual(p.m, 2) \/ LooseNotEqual(p.n, 3)
    THEN "unsupported multi-sig type"
  ELSE ""

\* The walletParams add posts: label, m, n, the keychains reduced to their
\* xpub, and the enterprise when it is truthy.
AddWalletParams(p) ==
  LET keychains == [n \in 1..Len(p.keychains.items) |->
                      [xpub |-> p.keychains.items[n].xpub]]
  IN  IF "enterprise" \in DOMAIN p /\ Truthy(p.enterprise)
        THEN [label |-> p.label, m |-> p.m, n |-> p.n,
              keychains |-> Array(keychains), enterprise |-> p.enterprise]
      ELSE [label |-> p.label, m |-> p.m, n |-> p.n,
            keychains |-> Array(keychains)]

\* POST /wallet
AddWalletRequest(p) == Request("addWallet", "POST", "", AddWalletParams(p))

\* The params add is called with directly: m and n numbers, numeric
\* strings or missing, keychains an array or not.
AddParams ==
  [label : {Str("L")},
   m : {Num(2), Num(3), Str("2"), UNDEF},
   n : {Num(3), Num(5), Str("3")},
   keychains : {Array(<< [xpub |-> Xpub(61)], [xpub |-> Xpub(62)],
                         [xpub |-> Xpub(63)] >>),
                Str("xpub"), UNDEF}]

\* The call of add: it throws on a bad argument, else posts the wallet.
Add(i) ==
  /\ MayStart(i)
  /\ \E p \in AddParams :
       /\ op' = [op EXCEPT ![i] = "add"]
       /\ params' = [params EXCEPT ![i] = p]
       /\ IF AddError(p) # ""
            THEN /\ pc' = [pc EXCEPT ![i] = "error"]
                 /\ result' = [result EXCEPT ![i] = Err(AddError(p))]
                 /\ UNCHANGED sent
          ELSE /\ pc' = [pc EXCEPT ![i] = "addWallet"]
               /\ sent' = [sent EXCEPT ![i] = <<AddWalletRequest(p)>>]
               /\ UNCHANGED result
  /\ UNCHANGED <<acceptVars, createVars>>

\* The service has created the wallet: new Wallet(bitgo, body).
AddResolved(i) ==
  /\ op[i] = "add" /\ pc[i] = "addWallet"
  /\ walletStore' = walletStore \cup {sent[i][1].body}
  /\ pc' = [pc EXCEPT ![i] = "done"]
  /\ result' = [result EXCEPT ![i] = Ok(sent[i][1].body)]
  /\ UNCHANGED <<op, params, sent, acceptVars, userKeychain, backupKeychain,
                 bitgoKeychain, keychainStore>>

\* The request of add fails.
AddRejected(i) ==
  /\ op[i] = "add" /\ pc[i] = "addWallet"
  /\ pc' = [pc EXCEPT ![i] = "error"]
  /\ result' = [result EXCEPT ![i] = Err("addWallet")]
  /\ UNCHANGED <<op, params, sent, acceptVars, createVars>>

NextAdd ==
  \E i \in Inv :
    \/ Add(i)
    \/ AddResolved(i)
    \/ AddRejected(i)

SpecAdd == Init /\ [][NextAdd]_vars

----------------------------------------------------------------------------
\* createWalletWithKeychains

\* The params createWalletWithKeychains is called with (passphrase passes
\* validateParams: a non-empty string).
CreateParams ==
  [passphrase : {Str("pp")}, label : {Str("L")},
   backupXpub : {UNDEF, Xpub(50)}, enterprise : {UNDEF}]
  \cup
  [passphrase : {Str("pp2")}, label : {Str("L")},
   backupXpub : {Xpub(50)}, enterprise : {Str("ent")}]
  \cup
  [passphrase : {Str("pp")}, label : {Str("L")},
   backupXpub : {Str("")}, enterprise : {Str("")}]

\* The keys keychains().create() draws in invocation i: fresh, so distinct
\* from every other key.
UserKey(i) == 10 + 2 * i
BackupKey(i) == 11 + 2 * i

\* The keychain the service creates on the createBitGo call of invocation i.
ServiceKeychain(i) == [xpub |-> Xpub(90 + i)]

\* Variant of NewUserKeychain that encrypts under the label.
NewUserKeychainUnderLabel(i, p) ==
  LET k == KeychainCreate(UserKey(i))
  IN  [xpub |-> k.xpub, xprv |-> k.xprv,
       encryptedXprv |-> Encrypt(p.label, k.xprv)]

\* userKeychain after lines 198-199
NewUserKeychain(i, p) ==
  LET k == KeychainCreate(UserKey(i))
  IN  [xpub |-> k.xpub, xprv |-> k.xprv,
       encryptedXprv |-> Encrypt(p.passphrase, k.xprv)]

\* Variant of NewBackupKeychain that creates a backup key pair whether or
\* not a backupXpub was supplied, and keeps the supplied xpub.
NewBackupKeychainGenerated(i, p) ==
  IF ~Truthy(p.backupXpub) THEN KeychainCreate(BackupKey(i))
  ELSE [xpub |-> p.backupXpub, xprv |-> Xprv(BackupKey(i))]

\* backupKeychain after lines 201-204
NewBackupKeychain(i, p) ==
  IF ~Truthy(p.backupXpub) THEN KeychainCreate(BackupKey(i))
  ELSE [xpub |-> p.backupXpub]

\* Variant of Key1Params that posts the xprv itself.
Key1ParamsPlain(uk) == [xpub |-> uk.xpub, encryptedXprv |-> uk.xprv]

Key1Params(uk) == [xpub |-> uk.xpub, encryptedXprv |-> uk.encryptedXprv]

\* Variant of Key2Params that uploads the backup key when there is one.
Key2ParamsWithKey(bk) ==
  IF "xprv" \in DOMAIN bk
    THEN [xpub |-> bk.xpub, encryptedXprv |-> Encrypt(Str("pp"), bk.xprv)]
  ELSE [xpub |-> bk.xpub]

Key2Params(bk) == [xpub |-> bk.xpub]

\* Variant of WalletParams with the backup keychain first.
WalletParamsBackupFirst(p, uk, bk, bgk) ==
  LET keychains == Array(<< [xpub |-> bk.xpub], [xpub |-> uk.xpub],
                            [xpub |-> bgk.xpub] >>)
  IN  IF Truthy(p.enterprise)
        THEN [label |-> p.label, m |-> Num(2), n |-> Num(3),
              keychains |-> keychains, enterprise |-> p.enterprise]
      ELSE [label |-> p.label, m |-> Num(2), n |-> Num(3),
            keychains |-> keychains]

\* walletParams of lines 226-238
WalletParams(p, uk, bk, bgk) ==
  LET keychains == Array(<< [xpub |-> uk.xpub], [xpub |-> bk.xpub],
                            [xpub |-> bgk.xpub] >>)
  IN  IF Truthy(p.enterprise)
        THEN [label |-> p.label, m |-> Num(2), n |-> Num(3),
              keychains |-> keychains, enterprise |-> p.enterprise]
      ELSE [label |-> p.label, m |-> Num(2), n |-> Num(3),
            keychains |-> keychains]

\* bitgo.keychains().add(params): POST /keychain
AddKeychainRequest(body) == Request("addKeychain", "POST", "", body)

\* bitgo.keychains().createBitGo(): POST /keychain/bitgo
CreateBitGoRequest == Request("createBitGo", "POST", "", <<>>)

\* Variant of NextStep that does not register the backup keychain.
NextStepNoBackup(step) ==
  CASE step = "addUserKeychain" -> "createBitGo"
    [] step = "addBackupKeychain" -> "createBitGo"
    [] step = "createBitGo" -> "addWallet"
    [] step = "addWallet" -> "done"

\* The promise chain of lines 214-250: the step each callback issues when
\* the step before it has resolved.
NextStep(step) ==
  CASE step = "addUserKeychain" -> "addBackupKeychain"
    [] step = "addBackupKeychain" -> "createBitGo"
    [] step = "createBitGo" -> "addWallet"
    [] step = "addWallet" -> "done"

\* Variant of OnRejected for a chain whose rejection reaches no callback.
OnRejectedLost(step) == "lost"

\* Variant of OnRejected for a chain that goes on after a failed wallet
\* creation.
OnRejectedIgnoreLast(step) == IF step = "addWallet" THEN "done" ELSE "error"

\* No callback of the chain handles a rejection: the rest of the chain is
\* skipped and nodeify delivers the error.
OnRejected(step) == "error"

\* The value of the last callback (lines 243-249).
CreateResult(wallet, uk, bk, bgk) ==
  [wallet |-> wallet, userKeychain |-> uk, backupKeychain |-> bk,
   bitgoKeychain |-> bgk,
   warning |-> "Be sure to backup the backup keychain -- it is not stored anywhere else!"]

\* The callback that runs when a step has resolved with value: it issues
\* the request of the next step, or returns the result.
Continue(i, step, value, bgk) ==
  LET wp == WalletParams(params[i], userKeychain[i], backupKeychain[i], bgk)
  IN  IF step = "done"
        THEN /\ pc' = [pc EXCEPT ![i] = "done"]
             /\ result' = [result EXCEPT ![i] =
                    Ok(CreateResult(value, userKeychain[i], backupKeychain[i], bgk))]
             /\ UNCHANGED sent
      ELSE IF step = "addWallet" /\ AddError(wp) # ""
        THEN /\ pc' = [pc EXCEPT ![i] = "error"]
             /\ result' = [result EXCEPT ![i] = Err(AddError(wp))]
             /\ UNCHANGED sent
      ELSE /\ pc' = [pc EXCEPT ![i] = step]
           /\ sent' = [sent EXCEPT ![i] = Append(@,
                  CASE step = "addBackupKeychain" ->
                         AddKeychainRequest(Key2Params(backupKeychain[i]))
                    [] step = "createBitGo" -> CreateBitGoRequest
                    [] step = "addWallet" -> AddWalletRequest(wp))]
           /\ UNCHANGED result

LastSent(i) == sent[i][Len(sent[i])]

\* The call: the keys are created, the user keychain is posted.
CreateWalletWithKeychains(i) ==
  /\ MayStart(i)
  /\ \E p \in CreateParams :
       LET uk == NewUserKeychain(i, p)
       IN  /\ op' = [op EXCEPT ![i] = "createWalletWithKeychains"]
           /\ params' = [params EXCEPT ![i] = p]
           /\ userKeychain' = [userKeychain EXCEPT ![i] = uk]
           /\ backupKeychain' = [backupKeychain EXCEPT ![i] = NewBackupKeychain(i, p)]
           /\ sent' = [sent EXCEPT ![i] = <<AddKeychainRequest(Key1Params(uk))>>]
  /\ pc' = [pc EXCEPT ![i] = "addUserKeychain"]
  /\ UNCHANGED <<result, bitgoKeychain, keychainStore, walletStore, acceptVars>>

\* The service has stored the user keychain.
UserKeychainAdded(i) ==
  /\ op[i] = "createWalletWithKeychains" /\ pc[i] = "addUserKeychain"
  /\ keychainStore' = keychainStore \cup {LastSent(i).body}
  /\ Continue(i, NextStep("addUserKeychain"), LastSent(i).body, bitgoKeychain[i])
  /\ UNCHANGED <<op, params, userKeychain, backupKeychain, bitgoKeychain,
                 walletStore, acceptVars>>

\* The service has stored the backup keychain.
BackupKeychainAdded(i) ==
  /\ op[i] = "createWalletWithKeychains" /\ pc[i] = "addBackupKeychain"
  /\ keychainStore' = keychainStore \cup {LastSent(i).body}
  /\ Continue(i, NextStep("addBackupKeychain"), LastSent(i).body, bitgoKeychain[i])
  /\ UNCHANGED <<op, params, userKeychain, backupKeychain, bitgoKeychain,
                 walletStore, acceptVars>>

\* The service has created its keychain: bitgoKeychain = keychain.
BitGoKeychainCreated(i) ==
  /\ op[i] = "createWalletWithKeychains" /\ pc[i] = "createBitGo"
  /\ keychainStore' = keychainStore \cup {ServiceKeychain(i)}
  /\ bitgoKeychain' = [bitgoKeychain EXCEPT ![i] = ServiceKeychain(i)]
  /\ Continue(i, NextStep("createBitGo"), ServiceKeychain(i), ServiceKeychain(i))
  /\ UNCHANGED <<op, params, userKeychain, backupKeychain, walletStore, acceptVars>>

\* The service has created the wallet.
WalletAdded(i) ==
  /\ op[i] = "createWalletWithKeychains" /\ pc[i] = "addWallet"
  /\ walletStore' = walletStore \cup {LastSent(i).body}
  /\ Continue(i, NextStep("addWallet"), LastSent(i).body, bitgoKeychain[i])
  /\ UNCHANGED <<op, params, userKeychain, backupKeychain, bitgoKeychain,
                 keychainStore, acceptVars>>

\* A request of createWalletWithKeychains fails.
CreateRejected(i) ==
  /\ op[i] = "createWalletWithKeychains"
  /\ pc[i] \in {"addUserKeychain", "addBackupKeychain", "createBitGo", "addWallet"}
  /\ pc' = [pc EXCEPT ![i] = OnRejected(pc[i])]
  /\ result' = [result EXCEPT ![i] = Err(pc[i])]
  /\ UNCHANGED <<op, params, sent, acceptVars, createVars>>

NextCreate ==
  \E i \in Inv :
    \/ CreateWalletWithKeychains(i)
    \/ UserKeychainAdded(i)
    \/ BackupKeychainAdded(i)
    \/ BitGoKeychainCreated(i)
    \/ WalletAdded(i)
    \/ CreateRejected(i)

SpecCreate == Init /\ [][NextCreate]_vars

\* The two operations that run over several calls, interleaved; add
\* called on its own is followed in SpecAdd.
Next == NextAccept \/ NextCreate

Spec == Init /\ [][Next]_vars

----------------------------------------------------------------------------
\* Properties of acceptShare

IsAccept(i) == op[i] = "acceptShare"

ShareOf(i) == Shares[params[i].walletShareId]

\* The set of capabilities a permissions string grants.
Capabilities(permissions) ==
  {Split(permissions)[n] : n \in 1..Len(Split(permissions))}

GrantsViewOnly(share) == Capabilities(share.permissions) = {<<"view">>}

GrantsBeyondView(share) == Capabilities(share.permissions) \ {<<"view">>} # {}

\* Invocation i has sent a request of this call.
Sends(i, call) == \E n \in 1..Len(sent[i]) : sent[i][n].call = call

NumSent(i, call) == Cardinality({n \in 1..Len(sent[i]) : sent[i][n].call = call})

\* The share of invocation i is pending unless another invocation has
\* posted its acceptance.
StillPending(i) ==
  (\A j \in Inv \ {i} :
      ~(IsAccept(j) /\ params[j].walletShareId = params[i].walletShareId
          /\ Sends(j, "acceptShare")))
  => shareState[params[i].walletShareId] = "pending"

\* The key the four steps decrypt, derive, ECDH, decrypt recover from the
\* fetched sharing keychain and the share, FAIL when one of them fails.
RecoveredXprv(p, share, keychain) ==
  Decrypt(ECDHSecret(Derive(Decrypt(p.userPassword, keychain.encryptedXprv),
                            share.keychain.path),
                     share.keychain.fromPubKey),
          share.keychain.encryptedXprv)

\* A step between the fetch of the share and the finalize request has
\* failed in invocation i.
TransferFailed(i) ==
  /\ IsAccept(i) /\ walletShare[i] # UNDEF /\ ~GrantsViewOnly(walletShare[i])
  /\ \/ result[i] = Err("getECDHSharingKeychain")
     \/ /\ sharingKeychain[i] # UNDEF
        /\ RecoveredXprv(params[i], walletShare[i], sharingKeychain[i]) = FAIL
     \/ result[i] = Err("encrypt")

\* C1: when a step between fetching the share and finalizing fails on a
\* share that is not view-only, the invocation has sent no finalize
\* request, has ended in an error, and the share is still pending.
C1_FailureBeforeFinalizeSendsNothing ==
  \A i \in Inv :
    TransferFailed(i) =>
      /\ ~Sends(i, "acceptShare")
      /\ pc[i] = "error" /\ result[i].t = "error"
      /\ StillPending(i)

C1_Witness ==
  \E i \in Inv :
    /\ TransferFailed(i)
    /\ result[i] = Err("decrypt shared wallet xprv")

\* The case of C2: a share with permissions {spend, view}, no userPassword.
SpendViewNoPassword(i) ==
  /\ IsAccept(i)
  /\ Capabilities(ShareOf(i).permissions) = {<<"spend">>, <<"view">>}
  /\ params[i].userPassword = UNDEF

MissingCredential ==
  Err("userPassword param must be provided to decrypt shared key")

\* C2 as stated: acceptShare without userPassword on a {spend, view} share
\* fails with the missing-credential error and sends no request at all.
C2_Original ==
  \A i \in Inv :
    (SpendViewNoPassword(i) /\ walletShare[i] # UNDEF) =>
      /\ result[i] = MissingCredential
      /\ sent[i] = <<>>

\* C2 amended: acceptShare without userPassword on a {spend, view} share
\* sends exactly one request, the GET of the share; once that has resolved
\* the invocation has failed with the missing-credential error, and it
\* sends no other request.
C2_OnlyShareFetchThenMissingCredential ==
  \A i \in Inv :
    SpendViewNoPassword(i) =>
      /\ sent[i] = <<GetShareRequest(params[i].walletShareId)>>
      /\ pc[i] \in {"getShare", "error"}
      /\ pc[i] = "error" =>
           \/ walletShare[i] # UNDEF /\ result[i] = MissingCredential
           \/ walletShare[i] = UNDEF /\ result[i] = Err("getShare")

C2_Witness ==
  \E i \in Inv :
    /\ SpendViewNoPassword(i)
    /\ walletShare[i] # UNDEF
    /\ result[i] = MissingCredential

\* C3: an invocation without userPassword (absent or empty) on a share
\* granting more than view sends no finalize request and no sharing
\* keychain request, and ends in an error.
C3_NoSilentAcceptance ==
  \A i \in Inv :
    (IsAccept(i) /\ GrantsBeyondView(ShareOf(i)) /\ ~Truthy(params[i].userPassword)) =>
      /\ ~Sends(i, "acceptShare")
      /\ ~Sends(i, "getECDHSharingKeychain")
      /\ pc[i] \in {"getShare", "error"}
      /\ pc[i] = "error" => result[i].t = "error"

C3_Witness ==
  \E i \in Inv :
    /\ IsAccept(i) /\ GrantsBeyondView(ShareOf(i))
    /\ params[i].userPassword = Str("")
    /\ pc[i] = "error" /\ walletShare[i] # UNDEF

\* The case of C4: permissions is 'view', no userPassword.
ViewNoPassword(i) ==
  /\ IsAccept(i)
  /\ ShareOf(i).permissions = <<"view">>
  /\ ~Truthy(params[i].userPassword)

\* C4: on a share whose permissions are exactly view, without
\* userPassword, the invocation fails only if the fetch or the finalize
\* call fails; the finalize payload is {state: 'accepted'} and nothing
\* else; no sharing keychain is fetched and no blob is produced.
C4_ViewOnlyShortcut ==
  \A i \in Inv :
    ViewNoPassword(i) =>
      /\ ~Sends(i, "getECDHSharingKeychain")
      /\ sharingKeychain[i] = UNDEF /\ encryptedSharedWalletXprv[i] = UNDEF
      /\ \A n \in 1..Len(sent[i]) :
           sent[i][n].call = "acceptShare" =>
             sent[i][n].body = [state |-> Str("accepted")]
      /\ pc[i] = "error" => result[i] \in {Err("getShare"), Err("post")}
      /\ pc[i] = "done" =>
           /\ result[i] = Ok([state |-> Str("accepted")])
           /\ shareState[params[i].walletShareId] = "accepted"

C4_Witness ==
  \E i \in Inv : ViewNoPassword(i) /\ pc[i] = "done"

\* C5: the only state-changing request of acceptShare is the finalize
\* POST; it is sent at most once, last, after the share was fetched and
\* (unless the share is view-only) the blob was produced; it is not sent
\* again after it failed; a share is accepted only when some invocation
\* has sent the finalize request for it.
C5_SingleFinalize ==
  /\ \A i \in Inv :
       IsAccept(i) =>
         /\ \A n \in 1..Len(sent[i]) :
              sent[i][n].method # "GET" =>
                /\ sent[i][n].call = "acceptShare"
                /\ n = Len(sent[i])
                /\ sent[i][1].call = "getShare" /\ n > 1
         /\ NumSent(i, "acceptShare") <= 1
         /\ Sends(i, "acceptShare") =>
              /\ walletShare[i] # UNDEF
              /\ \/ GrantsViewOnly(walletShare[i])
                 \/ /\ sharingKeychain[i] # UNDEF
                    /\ encryptedSharedWalletXprv[i].t = "enc"
                    /\ RecoveredXprv(params[i], walletShare[i], sharingKeychain[i]) # FAIL
         /\ result[i] = Err("post") =>
              pc[i] = "error" /\ NumSent(i, "acceptShare") = 1
         /\ pc[i] \in {"getShare", "getECDHSharingKeychain"} => StillPending(i)
  /\ \A s \in ShareIds :
       shareState[s] = "accepted" =>
         \E i \in Inv : /\ IsAccept(i) /\ params[i].walletShareId = s
                        /\ Sends(i, "acceptShare")

C5_Witness ==
  \E i \in Inv :
    /\ IsAccept(i) /\ result[i] = Err("post")
    /\ encryptedSharedWalletXprv[i] # UNDEF

----------------------------------------------------------------------------
\* Properties of createWalletWithKeychains

IsCreate(i) == op[i] = "createWalletWithKeychains"

\* The values a request carries: the fields of its body and the fields of
\* the entries of its arrays.
Payload(req) ==
  LET top == {req.body[f] : f \in DOMAIN req.body}
  IN  top \cup UNION { UNION { {v.items[n][f] : f \in DOMAIN v.items[n]}
                               : n \in 1..Len(v.items) }
                       : v \in {w \in top : w.t = "array"} }

\* Private key material that is not encrypted.
Plaintext(v) == v.t \in {"xprv", "eckey", "secret"}

\* C6: no request of createWalletWithKeychains or acceptShare carries
\* private key material in the clear: every key sent is an xpub or an
\* encrypted blob.
C6_OnlyEncryptedKeysLeave ==
  \A i \in Inv : \A n \in 1..Len(sent[i]) :
    \A v \in Payload(sent[i][n]) :
      /\ ~Plaintext(v)
      /\ v.t \in {"xpub", "enc", "str", "num", "array"}
      /\ IsCreate(i) => v # userKeychain[i].xprv
      /\ IsAccept(i) => v # SharingXprv /\ v # SharedWalletXprv

C6_Witness ==
  \E i, j \in Inv :
    /\ IsAccept(i) /\ Sends(i, "acceptShare")
    /\ encryptedSharedWalletXprv[i].t = "enc"
    /\ encryptedSharedWalletXprv[i].pt = SharedWalletXprv
    /\ IsCreate(j) /\ Sends(j, "addWallet")

\* The case of C7: no backupXpub, the backup keychain is created locally.
LocalBackup(i) == IsCreate(i) /\ ~Truthy(params[i].backupXpub)

RegisteredXpubs == {k.xpub : k \in keychainStore}

CallsOf(i) == [n \in 1..Len(sent[i]) |-> sent[i][n].call]

\* C8: the wallet-creation request is sent only after the user keychain,
\* the backup keychain and the service keychain were registered, in that
\* order, and every created wallet references registered user and backup
\* xpubs.
C8_WalletAfterKeychains ==
  /\ \A i \in Inv :
       (IsCreate(i) /\ Sends(i, "addWallet")) =>
         /\ CallsOf(i) = <<"addKeychain", "addKeychain", "createBitGo", "addWallet">>
         /\ sent[i][1].body \in keychainStore
         /\ sent[i][1].body.xpub = userKeychain[i].xpub
         /\ sent[i][2].body \in keychainStore
         /\ sent[i][2].body.xpub = backupKeychain[i].xpub
         /\ bitgoKeychain[i] \in keychainStore
  /\ \A w \in walletStore :
       /\ w.keychains.items[1].xpub \in RegisteredXpubs
       /\ w.keychains.items[2].xpub \in RegisteredXpubs

C8_Witness ==
  \E i \in Inv : IsCreate(i) /\ pc[i] = "done" /\ walletStore # {}

\* The position of a step in the chain.
StepIndex(step) ==
  CASE step = "addUserKeychain" -> 1
    [] step = "addBackupKeychain" -> 2
    [] step = "createBitGo" -> 3
    [] step = "addWallet" -> 4

\* C9: when a request of createWalletWithKeychains has failed, the
\* invocation has ended in an error, has sent no request after the failed
\* one, and returns no result.
C9_FailureAborts ==
  \A i \in Inv :
    (IsCreate(i) /\ result[i].t = "error"
       /\ result[i].msg \in {"addUserKeychain", "addBackupKeychain",
                             "createBitGo", "addWallet"}) =>
      /\ pc[i] = "error"
      /\ Len(sent[i]) = StepIndex(result[i].msg)
      /\ result[i].msg = "addWallet" => LastSent(i).body \notin walletStore

C9_Witness ==
  \E i \in Inv :
    IsCreate(i) /\ pc[i] = "error" /\ result[i] = Err("addBackupKeychain")

\* The wallet-creation requests of invocation i.
WalletRequests(i) ==
  {sent[i][n].body : n \in {m \in 1..Len(sent[i]) : sent[i][m].call = "addWallet"}}

\* The part of C10 about m, n and the keychains.
WalletShape(i, body) ==
  /\ body.m = Num(2) /\ body.n = Num(3)
  /\ body.label = params[i].label
  /\ Len(body.keychains.items) = 3
  /\ \A n \in 1..3 : DOMAIN body.keychains.items[n] = {"xpub"}
  /\ body.keychains.items[1].xpub = Xpub(UserKey(i))
  /\ body.keychains.items[2].xpub =
       IF Truthy(params[i].backupXpub) THEN params[i].backupXpub
       ELSE Xpub(BackupKey(i))
  /\ body.keychains.items[3].xpub = ServiceKeychain(i).xpub
  /\ body.keychains.items[3].xpub = bitgoKeychain[i].xpub

\* C10 as stated: m = 2, n = 3, the three xpubs user, backup, service, and
\* the enterprise present exactly when an enterprise parameter was given.
C10_Original ==
  \A i \in Inv : IsCreate(i) =>
    \A body \in WalletRequests(i) :
      /\ WalletShape(i, body)
      /\ "enterprise" \in DOMAIN body <=> params[i].enterprise # UNDEF

\* C10 amended: the enterprise is present exactly when a non-empty
\* enterprise parameter was given, and then it is that parameter.
C10_WalletRequestShape ==
  \A i \in Inv : IsCreate(i) =>
    \A body \in WalletRequests(i) :
      /\ WalletShape(i, body)
      /\ "enterprise" \in DOMAIN body <=> Truthy(params[i].enterprise)
      /\ "enterprise" \in DOMAIN body => body.enterprise = params[i].enterprise
      /\ DOMAIN body \subseteq {"label", "m", "n", "keychains", "enterprise"}

C10_Witness ==
  \E i \in Inv :
    /\ IsCreate(i) /\ WalletRequests(i) # {}
    /\ params[i].enterprise = Str("")

----------------------------------------------------------------------------
\* Properties of add

IsAdd(i) == op[i] = "add"

\* keychains is an array, m and n are numbers, (m, n) = (2, 3).
AddArgumentsValid(p) ==
  p.keychains.t = "array" /\ p.m = Num(2) /\ p.n = Num(3)

\* C11: add sends the wallet-creation request only when keychains is an
\* array and m and n are the numbers 2 and 3; on every other input it has
\* thrown an argument error and has sent nothing.
C11_AddValidatesFirst ==
  \A i \in Inv :
    IsAdd(i) =>
      IF AddArgumentsValid(params[i])
        THEN sent[i] = <<AddWalletRequest(params[i])>>
      ELSE /\ sent[i] = <<>>
           /\ pc[i] = "error"
           /\ result[i] \in {Err("invalid argument"),
                             Err("unsupported multi-sig type")}

C11_Witness ==
  \E i \in Inv :
    /\ IsAdd(i) /\ params[i].m = Num(3) /\ params[i].n = Num(5)
    /\ params[i].keychains.t = "array"
    /\ result[i] = Err("unsupported multi-sig type")

----------------------------------------------------------------------------
\* Properties of the documented steps of createWalletWithKeychains

\* keychain carries an encryptedXprv that decrypts under passphrase to its
\* own xprv.
EncryptedUnder(keychain, passphrase) ==
  /\ "encryptedXprv" \in DOMAIN keychain
  /\ "xprv" \in DOMAIN keychain
  /\ Decrypt(passphrase, keychain.encryptedXprv) = keychain.xprv

\* C12: when no backupXpub is provided the backup keychain is created
\* locally and encrypted with the passphrase, and the encrypted backup
\* keychain is uploaded with the encrypted user keychain: the backup
\* keychain registered and the one returned carry an encryptedXprv
\* produced under the passphrase.
C12_BackupEncryptedAndUploaded ==
  \A i \in Inv :
    LocalBackup(i) =>
      /\ Len(sent[i]) >= 2 =>
           /\ sent[i][2].call = "addKeychain"
           /\ "encryptedXprv" \in DOMAIN sent[i][2].body
           /\ Decrypt(params[i].passphrase, sent[i][2].body.encryptedXprv)
                = Xprv(BackupKey(i))
      /\ pc[i] = "done" =>
           EncryptedUnder(result[i].value.backupKeychain, params[i].passphrase)

----------------------------------------------------------------------------
\* Properties of the key transfer of acceptShare

\* Invocation i has run the key transfer and sent the finalize request.
KeyTransferred(i) ==
  /\ IsAccept(i) /\ sharingKeychain[i] # UNDEF /\ Sends(i, "acceptShare")

\* The finalize request of invocation i, the last one it sends.
Finalize(i) == sent[i][Len(sent[i])]

\* The secret invocation i computes from the recipient's derived key and
\* the sender's public key.
RecipientSecret(i) ==
  ECDHSecret(Derive(Decrypt(params[i].userPassword,
                            sharingKeychain[i].encryptedXprv),
                    walletShare[i].keychain.path),
             walletShare[i].keychain.fromPubKey)

\* C13: after a key transfer the blob of the finalize payload is the
\* recovered shared-wallet xprv encrypted under newWalletPassphrase when
\* one is supplied and under userPassword when it is absent or empty; it
\* is neither the sender's blob nor a blob under the ECDH secret.
C13_BlobUnderNewPassphrase ==
  \A i \in Inv :
    KeyTransferred(i) =>
      LET p == params[i]
          supplied == p.newWalletPassphrase.t = "str" /\ p.newWalletPassphrase.v # ""
          blob == Finalize(i).body.encryptedXprv
      IN  /\ Finalize(i).call = "acceptShare"
          /\ "encryptedXprv" \in DOMAIN Finalize(i).body
          /\ blob = Encrypt(IF supplied THEN p.newWalletPassphrase ELSE p.userPassword,
                            RecoveredXprv(p, walletShare[i], sharingKeychain[i]))
          /\ blob.pt = SharedWalletXprv
          /\ blob # walletShare[i].keychain.encryptedXprv
          /\ blob.pw # RecipientSecret(i)

C13_Witness ==
  \E i, j \in Inv :
    /\ KeyTransferred(i) /\ params[i].newWalletPassphrase = Str("np")
    /\ KeyTransferred(j) /\ params[j].newWalletPassphrase = Str("")


\* The share of invocation i is one the sender built as agreed, and the
\* recipient's sharing keychain has opened under userPassword: the blob of
\* the share is the wallet key X under S = ECDH(sender key, recipient's
\* public key at the path of the share).
RoundTripCase(i) ==
  /\ IsAccept(i) /\ walletShare[i] # UNDEF /\ sharingKeychain[i] # UNDEF
  /\ Decrypt(params[i].userPassword, sharingKeychain[i].encryptedXprv) = SharingXprv
  /\ PathIndex(walletShare[i].keychain.path) # 0
  /\ walletShare[i].keychain.fromPubKey = Pub(SenderEcKey.k)
  /\ walletShare[i].keychain.encryptedXprv =
       Encrypt(SenderSecret(walletShare[i].keychain.path), SharedWalletXprv)

\* C14: spend-share round trip.  In the round-trip case acceptShare
\* computes the sender's secret from the recipient's derived key and
\* fromPubKey, no step of the recovery fails, and the blob it submits
\* opens under the recipient's new passphrase to exactly X.
C14_SpendShareRoundTrip ==
  \A i \in Inv :
    RoundTripCase(i) =>
      /\ RecipientSecret(i) = SenderSecret(walletShare[i].keychain.path)
      /\ pc[i] = "error" => result[i] \in {Err("encrypt"), Err("post")}
      /\ pc[i] # "error" =>
           /\ Finalize(i).call = "acceptShare"
           /\ "encryptedXprv" \in DOMAIN Finalize(i).body
           /\ Decrypt(OrElse(params[i].newWalletPassphrase, params[i].userPassword),
                      Finalize(i).body.encryptedXprv) = SharedWalletXprv

C14_Witness ==
  \E i \in Inv :
    /\ RoundTripCase(i) /\ pc[i] = "done"
    /\ params[i].newWalletPassphrase = Str("np")
    /\ Decrypt(Str("np"), Finalize(i).body.encryptedXprv) = SharedWalletXprv


\* C15: concurrent invocations of acceptShare do not interfere.  Every
\* finalize request is addressed to the share of its own invocation; it
\* carries a blob only if that invocation ran the key transfer, and then
\* the blob made from its own share and passphrase; the finalize request
\* of a view-only acceptance carries no blob, whatever the other
\* invocations have produced.
C15_InvocationsIsolated ==
  \A i \in Inv :
    IsAccept(i) =>
      /\ encryptedSharedWalletXprv[i] # UNDEF => sharingKeychain[i] # UNDEF
      /\ \A n \in 1..Len(sent[i]) :
           /\ sent[i][n].call \in {"getShare", "acceptShare"} =>
                sent[i][n].id = params[i].walletShareId
           /\ (sent[i][n].call = "acceptShare"
                 /\ "encryptedXprv" \in DOMAIN sent[i][n].body) =>
                /\ sharingKeychain[i] # UNDEF
                /\ sent[i][n].body.encryptedXprv = encryptedSharedWalletXprv[i]
                /\ sent[i][n].body.encryptedXprv =
                     Encrypt(OrElse(params[i].newWalletPassphrase,
                                    params[i].userPassword),
                             RecoveredXprv(params[i], walletShare[i],
                                           sharingKeychain[i]))
           /\ (sent[i][n].call = "acceptShare"
                 /\ walletShare[i].permissions = <<"view">>) =>
                sent[i][n].body = [state |-> Str("accepted")]

\* A view-only acceptance and a key transfer, both suspended on their
\* finalize request.
C15_Witness ==
  \E i, j \in Inv :
    /\ IsAccept(i) /\ walletShare[i] # UNDEF
    /\ walletShare[i].permissions = <<"view">>
    /\ pc[i] = "post" /\ pc[j] = "post"
    /\ KeyTransferred(j) /\ encryptedSharedWalletXprv[j] # UNDEF
    /\ params[i].walletShareId # params[j].walletShareId

----------------------------------------------------------------------------
\* Properties of the keychains of createWalletWithKeychains

\* Invocation i was called with a backupXpub.
SuppliedBackup(i) == IsCreate(i) /\ Truthy(params[i].backupXpub)

\* C16: with a backupXpub supplied no backup private key is generated or
\* held: in every state and in the result the backup keychain is the
\* supplied xpub alone, and that xpub is the one registered as the backup
\* keychain and the second of the wallet's keychains.
C16_SuppliedBackupIsPublicOnly ==
  \A i \in Inv :
    SuppliedBackup(i) =>
      LET xpubOnly == [xpub |-> params[i].backupXpub]
      IN  /\ backupKeychain[i] = xpubOnly
          /\ DOMAIN backupKeychain[i] = {"xpub"}
          /\ Len(sent[i]) >= 2 => sent[i][2] = AddKeychainRequest(xpubOnly)
          /\ \A body \in WalletRequests(i) : body.keychains.items[2] = xpubOnly
          /\ pc[i] = "done" =>
               /\ result[i].value.backupKeychain = xpubOnly
               /\ result[i].value.wallet.keychains.items[2] = xpubOnly
               /\ xpubOnly \in keychainStore

C16_Witness ==
  \E i \in Inv :
    /\ SuppliedBackup(i) /\ pc[i] = "done"
    /\ result[i].value.backupKeychain = [xpub |-> Xpub(50)]


\* C17: whatever the passphrase, the encryptedXprv of the returned user
\* keychain opens under it to that keychain's own xprv, and it is the
\* blob that was sent, with the user xpub, in the registration request of
\* the user keychain.
C17_UserKeyRoundTrip ==
  \A i \in Inv :
    IsCreate(i) =>
      /\ EncryptedUnder(userKeychain[i], params[i].passphrase)
      /\ userKeychain[i].xprv = Xprv(UserKey(i))
      /\ sent[i][1] = AddKeychainRequest(
                        [xpub |-> userKeychain[i].xpub,
                         encryptedXprv |-> userKeychain[i].encryptedXprv])
      /\ pc[i] = "done" =>
           /\ result[i].value.userKeychain = userKeychain[i]
           /\ Decrypt(params[i].passphrase,
                      result[i].value.userKeychain.encryptedXprv)
                = result[i].value.userKeychain.xprv
           /\ sent[i][1].body.encryptedXprv
                = result[i].value.userKeychain.encryptedXprv
           /\ sent[i][1].body.xpub = result[i].value.userKeychain.xpub

\* Two wallets created under different passphrases.
C17_Witness ==
  \E i, j \in Inv :
    /\ IsCreate(i) /\ pc[i] = "done" /\ params[i].passphrase = Str("pp")
    /\ IsCreate(j) /\ pc[j] = "done" /\ params[j].passphrase = Str("pp2")
    /\ Decrypt(Str("pp2"), result[j].value.userKeychain.encryptedXprv)
         = Xprv(UserKey(j))
    /\ Decrypt(Str("pp2"), result[i].value.userKeychain.encryptedXprv) = FAIL

----------------------------------------------------------------------------
\* Properties of the branches and calls of acceptShare

\* Invocation i took the branch without key transfer: it went from the
\* share record straight to the finalize request, with no blob.
TookViewBranch(i) ==
  /\ ~Sends(i, "getECDHSharingKeychain")
  /\ result[i] # MissingCredential
  /\ CallsOf(i) = <<"getShare", "acceptShare">>
  /\ Finalize(i).body = [state |-> Str("accepted")]

\* Invocation i took the key-transfer branch: it asked for the password
\* and, when there is one, for the sharing keychain.
TookKeyTransferBranch(i) ==
  \/ result[i] = MissingCredential
  \/ Sends(i, "getECDHSharingKeychain")

\* C18: acceptShare takes the branch without key transfer exactly when
\* the set of capabilities of the share is {view}, whatever the text of
\* permissions (repeated entries included): such a share is accepted
\* without userPassword and without a blob, every other share takes the
\* key-transfer branch.
C18_ViewBranchBySet ==
  \A i \in Inv :
    (IsAccept(i) /\ walletShare[i] # UNDEF) =>
      IF GrantsViewOnly(walletShare[i]) THEN TookViewBranch(i)
      ELSE TookKeyTransferBranch(i)


IsPrefix(s, t) == Len(s) <= Len(t) /\ \A n \in 1..Len(s) : s[n] = t[n]

\* The calls of a whole acceptance of the share fetched by invocation i:
\* two for a share whose permissions are 'view', three for any other.
AcceptCalls(i) ==
  IF walletShare[i] # UNDEF /\ walletShare[i].permissions = <<"view">>
    THEN <<"getShare", "acceptShare">>
  ELSE <<"getShare", "getECDHSharingKeychain", "acceptShare">>

\* C19: the calls of an invocation of acceptShare are a prefix of the
\* fetch of the share then the finalize request for a view-only share,
\* and of the fetch of the share, the fetch of the sharing keychain, then
\* the finalize request for any other; the sharing keychain is fetched
\* only once the share record is there, for a share that is not
\* view-only and with a userPassword; nothing follows the finalize
\* request.
C19_CallsArePrefix ==
  \A i \in Inv :
    IsAccept(i) =>
      /\ IsPrefix(CallsOf(i), AcceptCalls(i))
      /\ Len(sent[i]) >= 1
      /\ Sends(i, "getECDHSharingKeychain") =>
           /\ walletShare[i] # UNDEF
           /\ walletShare[i].permissions # <<"view">>
           /\ params[i].userPassword.t = "str" /\ params[i].userPassword.v # ""
      /\ \A n \in 1..Len(sent[i]) :
           sent[i][n].call = "acceptShare" => n = Len(sent[i])
      /\ pc[i] = "done" => CallsOf(i) = AcceptCalls(i)

C19_Witness ==
  \E i, j \in Inv :
    /\ IsAccept(i) /\ pc[i] = "done"
    /\ CallsOf(i) = <<"getShare", "acceptShare">>
    /\ IsAccept(j) /\ pc[j] = "done"
    /\ CallsOf(j) = <<"getShare", "getECDHSharingKeychain", "acceptShare">>

----------------------------------------------------------------------------
\* Termination

\* A collaborator call of invocation i returns: a result or a failure.
Returns(i) ==
  \/ GetShareResolved(i)
  \/ SharingKeychainResolved(i)
  \/ PostResolved(i)
  \/ AcceptShareRejected(i)
  \/ UserKeychainAdded(i)
  \/ BackupKeychainAdded(i)
  \/ BitGoKeychainCreated(i)
  \/ WalletAdded(i)
  \/ CreateRejected(i)

\* The calls followed to termination: a view-only share and a key
\* transfer without a password, a key transfer with one, and a wallet
\* with a local backup keychain.
TerminationParams ==
  {q \in AcceptShareParams :
     \/ q.walletShareId \in {"s1", "s2"} /\ q.userPassword = UNDEF
     \/ q.walletShareId = "s2" /\ q.userPassword = AccountPassword
                              /\ q.newWalletPassphrase = UNDEF}
  \cup {q \in CreateParams : q.backupXpub = UNDEF}

\* The two calls, with one of TerminationParams.
AcceptShareCalled(i) == AcceptShare(i) /\ params'[i] \in TerminationParams

CreateWalletCalled(i) ==
  CreateWalletWithKeychains(i) /\ params'[i] \in TerminationParams

NextTermination ==
  \E i \in Inv :
    \/ AcceptShareCalled(i)
    \/ CreateWalletCalled(i)
    \/ Returns(i)

\* Every collaborator call eventually returns.
SpecFair ==
  Init /\ [][NextTermination]_vars /\ \A i \in Inv : WF_vars(Returns(i))

Started(i) == op[i] # "none"

Terminated(i) == pc[i] \in {"done", "error"}

\* The outcome of invocation i is one of a result and an error, and a
\* result comes only after the last call of the operation succeeded.
OneOutcome(i) ==
  /\ ~Terminated(i) => result[i] = UNDEF
  /\ pc[i] = "done" =>
       /\ result[i].t = "ok"
       /\ IsAccept(i) =>
            /\ Finalize(i).call = "acceptShare"
            /\ shareState[params[i].walletShareId] = "accepted"
            /\ result[i].value = Finalize(i).body
       /\ IsCreate(i) =>
            /\ Finalize(i).call = "addWallet"
            /\ Finalize(i).body \in walletStore
            /\ result[i].value.wallet = Finalize(i).body
  /\ pc[i] = "error" => result[i].t = "error"

\* C20: if every collaborator call eventually returns, every invocation
\* of acceptShare and of createWalletWithKeychains eventually terminates,
\* with a result or with an error and never both; acceptShare returns a
\* result only after the finalize call succeeded,
\* createWalletWithKeychains only after the wallet-creation call
\* succeeded.
C20_Terminates ==
  /\ \A i \in Inv : Started(i) ~> Terminated(i)
  /\ [](\A i \in Inv : OneOutcome(i))
  /\ [][\A i \in Inv : Terminated(i) => (pc'[i] = pc[i] /\ result'[i] = result[i])]_vars

C20_Witness ==
  \E i, j \in Inv :
    /\ IsAccept(i) /\ pc[i] = "done" /\ result[i].t = "ok"
    /\ IsCreate(j) /\ pc[j] = "error" /\ result[j] = Err("addWallet")

====
